---- MODULE Spec2Model ----
(***************************************************************************)
(* Garage occupancy ingestion of the portfolio site: the /api/parking      *)
(* route (src/app/api/parking/route.ts).  One ingestion cycle fetches the  *)
(* upstream status page, walks the ".garage .garage__name" labels and      *)
(* builds the mapping garage name -> {total, open}; the GET handler turns   *)
(* the result into an HTTP response.                                       *)
(*                                                                         *)
(* Text is modelled as a sequence of one-character strings so that trim,   *)
(* toLowerCase, includes, replace and parseInt are computed as JavaScript  *)
(* computes them.  null and NaN are the empty tuple, a number n is <<n>>.  *)
(***************************************************************************)
EXTENDS Integers, Sequences, FiniteSets, TLC

\* one ingestion cycle of the parking route and the GET handler
VARIABLES upstream, pc, html, idx, data, result, response

\* ingestion cycles running side by side, each with its own locals
VARIABLES cycles

\* the parking page in the browser
VARIABLES issued, inflight, pageData, loading, received, displayed

\* the outbound requests of the server routes
VARIABLES outbound, tlsDefault

\* the home page in the browser
VARIABLES homePc, stored, prefersDark, theme, dataTheme,
          experienceOpen, hackathonOpen

\* the last call of one of the other routes and its answer
VARIABLES call, answer

concVars == <<cycles>>

homeVars ==
  <<homePc, stored, prefersDark, theme, dataTheme, experienceOpen, hackathonOpen>>

routeVars == <<call, answer>>

siteVars == <<homeVars, routeVars>>

pageVars == <<issued, inflight, pageData, loading, received, displayed>>

appVars == <<outbound, tlsDefault>>

\* what a step of the single cycle leaves alone
others == <<concVars, pageVars, appVars, siteVars>>

vars == <<upstream, pc, html, idx, data, result, response, others>>

(***************************************************************************)
(* Bounds of the model.                                                    *)
(***************************************************************************)
\* longest page (number of garage name labels) built from the basic labels
MaxLabels == 2
\* largest and (negated) smallest percentage written into a fullness element
MaxPct == 105
MaxNeg == 5

(***************************************************************************)
(* JavaScript string primitives.                                           *)
(***************************************************************************)
WhiteSpace == {" ", "\n", "\t"}

UpperCase == <<"A","B","C","D","E","F","G","H","I","J","K","L","M",
               "N","O","P","Q","R","S","T","U","V","W","X","Y","Z">>
LowerCase == <<"a","b","c","d","e","f","g","h","i","j","k","l","m",
               "n","o","p","q","r","s","t","u","v","w","x","y","z">>

DigitChars == <<"0","1","2","3","4","5","6","7","8","9">>

IsDigit(c) == \E i \in 1..10 : DigitChars[i] = c

DigitVal(c) == (CHOOSE i \in 1..10 : DigitChars[i] = c) - 1

\* String.prototype.toLowerCase, one character
LowerChar(c) ==
  IF \E i \in 1..26 : UpperCase[i] = c
  THEN LowerCase[CHOOSE i \in 1..26 : UpperCase[i] = c]
  ELSE c

\* String.prototype.toLowerCase
ToLowerCase(s) == [i \in 1..Len(s) |-> LowerChar(s[i])]

RECURSIVE TrimStart(_)
TrimStart(s) ==
  IF s # <<>> /\ Head(s) \in WhiteSpace THEN TrimStart(Tail(s)) ELSE s

RECURSIVE TrimEnd(_)
TrimEnd(s) ==
  IF s # <<>> /\ s[Len(s)] \in WhiteSpace
  THEN TrimEnd(SubSeq(s, 1, Len(s) - 1))
  ELSE s

\* String.prototype.trim
Trim(s) == TrimEnd(TrimStart(s))

\* String.prototype.includes
Includes(s, sub) ==
  \E i \in 0..(Len(s) - Len(sub)) : SubSeq(s, i + 1, i + Len(sub)) = sub

\* String.prototype.replace(c, ""): removes the FIRST occurrence of c only
ReplaceFirst(s, c) ==
  IF \E i \in 1..Len(s) : s[i] = c
  THEN LET k == CHOOSE i \in 1..Len(s) :
                  s[i] = c /\ \A j \in 1..(i - 1) : s[j] # c
       IN  SubSeq(s, 1, k - 1) \o SubSeq(s, k + 1, Len(s))
  ELSE s

NaN == <<>>

\* the longest prefix of decimal digits of s
RECURSIVE DigitPrefix(_)
DigitPrefix(s) ==
  IF s # <<>> /\ IsDigit(Head(s))
  THEN <<Head(s)>> \o DigitPrefix(Tail(s))
  ELSE <<>>

RECURSIVE DigitsValue(_)
DigitsValue(d) ==
  IF d = <<>> THEN 0
  ELSE 10 * DigitsValue(SubSeq(d, 1, Len(d) - 1)) + DigitVal(d[Len(d)])

\* parseInt(s, 10): leading white space is skipped, one sign is accepted,
\* then the longest run of digits is read and whatever follows is ignored;
\* NaN when there is no digit at that place.
ParseInt(s) ==
  LET t    == TrimStart(s)
      neg  == t # <<>> /\ Head(t) = "-"
      body == IF t # <<>> /\ Head(t) \in {"-", "+"} THEN Tail(t) ELSE t
      d    == DigitPrefix(body)
  IN  IF d = <<>> THEN NaN
      ELSE <<IF neg THEN 0 - DigitsValue(d) ELSE DigitsValue(d)>>

\* Math.floor written where Math.round is meant
MathRound_Floor(num, den) == num \div den

\* Math.round of the rational num/den (den > 0): floor(x + 1/2)
MathRound(num, den) == (2 * num + den) \div (2 * den)

(***************************************************************************)
(* The compiled-in catalog.                                                *)
(***************************************************************************)
SouthGarage == <<"S","o","u","t","h"," ","G","a","r","a","g","e">>
WestGarage == <<"W","e","s","t"," ","G","a","r","a","g","e">>
NorthGarage == <<"N","o","r","t","h"," ","G","a","r","a","g","e">>
SouthCampusGarage ==
  <<"S","o","u","t","h"," ","C","a","m","p","u","s"," ","G","a","r","a","g","e">>

TOTAL_SPOTS ==
  (SouthGarage :> 1505) @@ (WestGarage :> 1144) @@
  (NorthGarage :> 1445) @@ (SouthCampusGarage :> 1480)

Null == <<>>

\* Object.keys(TOTAL_SPOTS).includes(garageName)
Recognized(garageName) == garageName \in DOMAIN TOTAL_SPOTS

(***************************************************************************)
(* The page.  A label is one ".garage .garage__name" element together with  *)
(* its next sibling: name is the label's text; isP says whether the next   *)
(* sibling matches "p.garage__text"; the paragraph's text nodes are pre and *)
(* post, and when hasSpan it holds a "span.garage__fullness" with text span *)
(* between them.                                                           *)
(***************************************************************************)
NoSibling ==
  [isP |-> FALSE, pre |-> <<>>, hasSpan |-> FALSE, span |-> <<>>, post |-> <<>>]

Paragraph(pre, post) ==
  [isP |-> TRUE, pre |-> pre, hasSpan |-> FALSE, span |-> <<>>, post |-> post]

ParagraphWithSpan(pre, span, post) ==
  [isP |-> TRUE, pre |-> pre, hasSpan |-> TRUE, span |-> span, post |-> post]

Label(name, next) == [name |-> name, next |-> next]

\* nextP.text(): the text of the paragraph and of its descendants
ParagraphText(nextP) ==
  nextP.pre \o (IF nextP.hasSpan THEN nextP.span ELSE <<>>) \o nextP.post

\* nextP.text().trim().toLowerCase().includes("full")
MarkedFull(nextP) ==
  Includes(ToLowerCase(Trim(ParagraphText(nextP))), <<"f","u","l","l">>)

\* fullnessSpan.text().trim().replace("%", "").trim()
PercentageText(span) == Trim(ReplaceFirst(Trim(span), "%"))

\* Math.round(totalSpots - (percentageFull / 100) * totalSpots).  The double
\* arithmetic of the source gives the exact quotient's rounding for every
\* catalog total and every percentage from -300 to 109.
OpenSpots(totalSpots, percentageFull) ==
  MathRound(100 * totalSpots - percentageFull * totalSpots, 100)

\* the percentage looked at before the word "full"
OpenFor_PercentFirst(totalSpots, nextP) ==
  IF ~nextP.isP THEN Null
  ELSE IF nextP.hasSpan /\ ParseInt(PercentageText(nextP.span)) # NaN
       THEN <<OpenSpots(totalSpots, ParseInt(PercentageText(nextP.span))[1])>>
  ELSE IF MarkedFull(nextP) THEN <<0>>
  ELSE Null

\* "full" looked for in the text as written, without toLowerCase
OpenFor_CaseSensitive(totalSpots, nextP) ==
  IF ~nextP.isP THEN Null
  ELSE IF Includes(Trim(ParagraphText(nextP)), <<"f","u","l","l">>) THEN <<0>>
  ELSE IF nextP.hasSpan /\ ParseInt(PercentageText(nextP.span)) # NaN
       THEN <<OpenSpots(totalSpots, ParseInt(PercentageText(nextP.span))[1])>>
  ELSE Null

\* open initialised to 0 instead of null
OpenFor_DefaultZero(totalSpots, nextP) ==
  IF ~nextP.isP THEN <<0>>
  ELSE IF MarkedFull(nextP) THEN <<0>>
  ELSE IF nextP.hasSpan /\ ParseInt(PercentageText(nextP.span)) # NaN
       THEN <<OpenSpots(totalSpots, ParseInt(PercentageText(nextP.span))[1])>>
  ELSE <<0>>

\* the value the callback leaves in data[garageName].open
OpenFor(totalSpots, nextP) ==
  IF ~nextP.isP THEN Null
  ELSE IF MarkedFull(nextP) THEN <<0>>
  ELSE IF nextP.hasSpan
       THEN LET percentageFull == ParseInt(PercentageText(nextP.span))
            IN  IF percentageFull # NaN
                THEN <<OpenSpots(totalSpots, percentageFull[1])>>
                ELSE Null
       ELSE Null

\* the object replaced instead of extended
Put_Replace(d, k, v) == [x \in {k} |-> v]

\* an entry that exists is left as it is
Put_KeepFirst(d, k, v) ==
  IF k \in DOMAIN d THEN d
  ELSE [x \in DOMAIN d \cup {k} |-> IF x = k THEN v ELSE d[x]]

\* data[garageName] = ..., a property assignment on the object
Put(d, k, v) == [x \in DOMAIN d \cup {k} |-> IF x = k THEN v ELSE d[x]]

\* total read from the page's number when the page carries one
EachCallback_PageTotal(d, el) ==
  LET garageName == Trim(el.name)
      shown      == ParseInt(PercentageText(el.next.span))
  IN  IF Recognized(garageName)
      THEN Put(d, garageName,
               [total |-> IF shown # NaN THEN shown[1]
                          ELSE TOTAL_SPOTS[garageName],
                open  |-> OpenFor(TOTAL_SPOTS[garageName], el.next)])
      ELSE d

\* a label outside the catalog given an empty entry instead of being skipped
EachCallback_AddUnknown(d, el) ==
  LET garageName == Trim(el.name)
  IN  IF Recognized(garageName)
      THEN Put(d, garageName,
               [total |-> TOTAL_SPOTS[garageName],
                open  |-> OpenFor(TOTAL_SPOTS[garageName], el.next)])
      ELSE Put(d, garageName, [total |-> 0, open |-> Null])

\* a garage entered only once its open count is known
EachCallback_DropUndetermined(d, el) ==
  LET garageName == Trim(el.name)
  IN  IF Recognized(garageName)
         /\ OpenFor(TOTAL_SPOTS[garageName], el.next) # Null
      THEN Put(d, garageName,
               [total |-> TOTAL_SPOTS[garageName],
                open  |-> OpenFor(TOTAL_SPOTS[garageName], el.next)])
      ELSE d

\* the callback of $(".garage .garage__name").each
EachCallback(d, el) ==
  LET garageName == Trim(el.name)
  IN  IF Recognized(garageName)
      THEN Put(d, garageName,
               [total |-> TOTAL_SPOTS[garageName],
                open  |-> OpenFor(TOTAL_SPOTS[garageName], el.next)])
      ELSE d

EmptyData == [x \in {} |-> Null]

\* the whole each loop: the callback applied to the labels in page order
RECURSIVE FoldEach(_, _)
FoldEach(d, labels) ==
  IF labels = <<>> THEN d
  ELSE FoldEach(EachCallback(d, Head(labels)), Tail(labels))

(***************************************************************************)
(* Pages the upstream site may serve.                                      *)
(***************************************************************************)
\* decimal numeral of n >= 0
RECURSIVE Numeral(_)
Numeral(n) ==
  IF n < 10 THEN <<DigitChars[n + 1]>>
  ELSE Numeral(n \div 10) \o <<DigitChars[(n % 10) + 1]>>

SignedNumeral(p) == IF p < 0 THEN <<"-">> \o Numeral(0 - p) ELSE Numeral(p)

\* the ways a page writes the percentage p into the fullness element
PercentTexts(p) ==
  { SignedNumeral(p) \o <<"%">>,
    <<" ">> \o SignedNumeral(p) \o <<" ", "%", "\n">> }

Percentages == (0 - MaxNeg)..MaxPct

T_FULL == <<"F","U","L","L">>
T_Full == <<"F","u","l","l">>
T_full == <<"f","u","l","l">>
T_SpaceFull == <<" ","F","u","l","l">>
T_GarageFull == <<"G","a","r","a","g","e"," ","F","u","L","l","!">>
T_Open == <<"O","p","e","n">>
T_82 == <<"8","2","%">>
T_abc == <<"a","b","c">>
T_82abc == <<"8","2","a","b","c">>
T_82_5 == <<"8","2",".","5","%">>
T_82pp == <<"8","2","%","%">>
T_8p2 == <<"8","%","2">>
T_p82 == <<"%","8","2">>
T_pct == <<"%">>
T_plus7 == <<"+","7","%">>
T_x82 == <<"x","8","2">>
T_82Full == <<"8","2","%"," ","F","u","l","l">>

EastGarage == <<"E","a","s","t"," ","G","a","r","a","g","e">>

\* label texts: the catalog names, a name no catalog entry has, names with
\* surrounding white space and a catalog name in another letter case
BasicNames ==
  {SouthGarage, WestGarage, NorthGarage, SouthCampusGarage, EastGarage}

RichNames ==
  BasicNames \cup
  { <<" ", "\n">> \o NorthGarage \o <<" ">>,
    ToLowerCase(SouthGarage) }

BasicSiblings ==
  { NoSibling,
    Paragraph(T_FULL, <<>>),
    ParagraphWithSpan(<<>>, T_82, <<>>),
    ParagraphWithSpan(<<>>, T_82, T_SpaceFull) }

OddSpanTexts ==
  { <<>>, <<" ">>, T_abc, T_82abc, T_82_5, T_82pp, T_8p2, T_p82, T_pct,
    T_plus7, T_x82, T_Full }

RichSiblings ==
  BasicSiblings
  \cup { ParagraphWithSpan(<<>>, t, post) :
           t \in UNION { PercentTexts(p) : p \in Percentages },
           post \in {<<>>, T_SpaceFull} }
  \cup { ParagraphWithSpan(<<>>, t, <<>>) : t \in OddSpanTexts }
  \cup { ParagraphWithSpan(T_GarageFull, T_82, <<>>),
         ParagraphWithSpan(T_Open, T_82abc, <<>>),
         ParagraphWithSpan(<<>>, T_82Full, <<>>) }
  \cup { Paragraph(t, <<>>) :
           t \in {<<>>, T_Open, T_Full, T_full, T_GarageFull, T_82Full} }

BasicLabels == { Label(n, sib) : n \in BasicNames, sib \in BasicSiblings }

RichLabels == { Label(n, sib) : n \in RichNames, sib \in RichSiblings }

RECURSIVE SeqsUpTo(_, _)
SeqsUpTo(S, n) ==
  IF n = 0 THEN {<<>>}
  ELSE LET shorter == SeqsUpTo(S, n - 1)
       IN  shorter \cup { Append(q, x) : q \in shorter, x \in S }

UpstreamPages ==
  SeqsUpTo(BasicLabels, MaxLabels) \cup { <<l>> : l \in RichLabels }

(***************************************************************************)
(* One ingestion cycle and the GET handler.                                *)
(***************************************************************************)
ErrorMessage == "Could not retrieve parking data."

NoResponse == <<>>

\* NextResponse.json(parkingData)
JsonOk(parkingData) ==
  <<[status |-> 200, data |-> <<parkingData>>, error |-> <<>>]>>

\* NextResponse.json({ error: ... }, { status: 500 })
JsonError == <<[status |-> 500, data |-> <<>>, error |-> <<ErrorMessage>>]>>

\* the null check left out: a failure answered like a success
ResponseFor_NoNullCheck(parkingData) ==
  <<[status |-> 200, data |-> parkingData, error |-> <<>>]>>

\* an empty mapping taken for a failure (a truthiness test on the entries)
ResponseFor_EmptyIsFailure(parkingData) ==
  IF parkingData = Null \/ DOMAIN parkingData[1] = {}
  THEN JsonError ELSE JsonOk(parkingData[1])

\* the body of GET after getParkingData has returned
ResponseFor(parkingData) ==
  IF parkingData = Null THEN JsonError ELSE JsonOk(parkingData[1])

Terminal == {"FetchFailed", "ParseFailed", "Snapshot"}

\* the components a specification does not run stay as constructed
ConcIdle == cycles = <<>>

PageIdle ==
  /\ issued = 0
  /\ inflight = {}
  /\ pageData = Null
  /\ loading = TRUE
  /\ received = NoResponse
  /\ displayed = 0

AppIdle == outbound = <<>> /\ tlsDefault = TRUE

HomeIdle ==
  /\ homePc = "served"
  /\ stored = Null
  /\ prefersDark = FALSE
  /\ theme = Null
  /\ dataTheme = Null
  /\ experienceOpen = Null
  /\ hackathonOpen = Null

RouteIdle == call = <<>> /\ answer = <<>>

SiteIdle == HomeIdle /\ RouteIdle

CycleIdle ==
  /\ upstream = <<>>
  /\ pc = "Idle"
  /\ html = <<>>
  /\ idx = 0
  /\ data = EmptyData
  /\ result = Null
  /\ response = NoResponse

Init ==
  /\ upstream \in UpstreamPages
  /\ pc = "Idle"
  /\ html = <<>>
  /\ idx = 0
  /\ data = EmptyData
  /\ result = Null
  /\ response = NoResponse
  /\ ConcIdle /\ PageIdle /\ AppIdle /\ SiteIdle

\* the outbound requests are logged with the route that sent them, their
\* address and whether the peer's certificate was validated
MaxRequests == 4

ParkingUrl == "https://sjsuparkingstatus.sjsu.edu/"

LastFmUrl == "https://ws.audioscrobbler.com/2.0/"

ContributionsUrl == "https://github-contributions-api.jogruber.de/v4/n8thantran"

ResumeUrl == "https://github.com/n8thantran/resume/raw/SWE/main.pdf"

\* new https.Agent({ rejectUnauthorized: false })
BypassAgent == [rejectUnauthorized |-> FALSE]

Sent(route, url, verified) ==
  [route |-> route, url |-> url, verified |-> verified]

\* the bypass switched on for the whole process instead of for one agent
ParkingGet_ProcessWide ==
  /\ Len(outbound) < MaxRequests
  /\ outbound' = Append(outbound, Sent("parking", ParkingUrl, FALSE))
  /\ tlsDefault' = FALSE

\* axios.get(url, { httpsAgent: agent }): the agent is a local of the call
ParkingGet ==
  /\ Len(outbound) < MaxRequests
  /\ outbound' = Append(outbound,
                        Sent("parking", ParkingUrl,
                             BypassAgent.rejectUnauthorized))
  /\ UNCHANGED tlsDefault

\* GET calls getParkingData, which issues axios.get(url, { httpsAgent })
Request ==
  /\ pc = "Idle"
  /\ pc' = "Fetching"
  /\ ParkingGet
  /\ UNCHANGED <<upstream, html, idx, data, result, response>>
  /\ UNCHANGED <<concVars, pageVars, siteVars>>

\* the await outside the try block: the rejection leaves getParkingData
FetchFail_Uncaught ==
  /\ pc = "Fetching"
  /\ pc' = "Crashed"
  /\ UNCHANGED <<upstream, html, idx, data, result, response>>
  /\ UNCHANGED others

\* the catch block trying the request once more
FetchFail_Retry ==
  /\ pc = "Fetching"
  /\ Len(outbound) < MaxRequests
  /\ outbound' = Append(outbound, Sent("parking", ParkingUrl, FALSE))
  /\ UNCHANGED <<upstream, pc, html, idx, data, result, response>>
  /\ UNCHANGED <<concVars, pageVars, tlsDefault, siteVars>>

\* axios.get rejects (network error, non-2xx status): catch returns null
FetchFail ==
  /\ pc = "Fetching"
  /\ pc' = "FetchFailed"
  /\ result' = Null
  /\ UNCHANGED <<upstream, html, idx, data, response>>
  /\ UNCHANGED others

\* axios.get resolves with the page
FetchOk ==
  /\ pc = "Fetching"
  /\ pc' = "Fetched"
  /\ html' = upstream
  /\ UNCHANGED <<upstream, idx, data, result, response>>
  /\ UNCHANGED others

\* execution continues after the await, into cheerio.load
StartParse ==
  /\ pc = "Fetched"
  /\ pc' = "Parsing"
  /\ idx' = 0
  /\ UNCHANGED <<upstream, html, data, result, response>>
  /\ UNCHANGED others

\* cheerio.load(html); data = {}; the labels are selected
Load ==
  /\ pc = "Parsing" /\ idx = 0
  /\ data' = EmptyData
  /\ idx' = 1
  /\ UNCHANGED <<upstream, pc, html, result, response>>
  /\ UNCHANGED others

\* one call of the each callback
Each ==
  /\ pc = "Parsing" /\ idx >= 1 /\ idx <= Len(html)
  /\ data' = EachCallback(data, html[idx])
  /\ idx' = idx + 1
  /\ UNCHANGED <<upstream, pc, html, result, response>>
  /\ UNCHANGED others

\* the end of the traversal tested one label too late
Return_OffByOne ==
  /\ pc = "Parsing" /\ idx > Len(html) + 1
  /\ pc' = "Snapshot"
  /\ result' = <<data>>
  /\ UNCHANGED <<upstream, html, idx, data, response>>
  /\ UNCHANGED others

\* return data
Return ==
  /\ pc = "Parsing" /\ idx > Len(html)
  /\ pc' = "Snapshot"
  /\ result' = <<data>>
  /\ UNCHANGED <<upstream, html, idx, data, response>>
  /\ UNCHANGED others

\* the catch block returning what was built so far
ParseThrow_ReturnsPartial ==
  /\ pc = "Parsing"
  /\ pc' = "ParseFailed"
  /\ result' = <<data>>
  /\ UNCHANGED <<upstream, html, idx, data, response>>
  /\ UNCHANGED others

\* the catch block starting the fetch again
ParseThrow_Retry ==
  /\ pc = "Parsing"
  /\ pc' = "Fetching"
  /\ UNCHANGED <<upstream, html, idx, data, result, response>>
  /\ UNCHANGED others

\* an exception raised by cheerio.load or during the traversal: catch
\* returns null
ParseThrow ==
  /\ pc = "Parsing"
  /\ pc' = "ParseFailed"
  /\ result' = Null
  /\ UNCHANGED <<upstream, html, idx, data, response>>
  /\ UNCHANGED others

\* GET resumes with getParkingData's value and answers
Respond ==
  /\ pc \in Terminal /\ response = NoResponse
  /\ response' = ResponseFor(result)
  /\ UNCHANGED <<upstream, pc, html, idx, data, result>>
  /\ UNCHANGED others

Next ==
  \/ Request
  \/ FetchFail
  \/ FetchOk
  \/ StartParse
  \/ Load
  \/ Each
  \/ Return
  \/ ParseThrow
  \/ Respond

Spec == Init /\ [][Next]_vars

\* The event loop runs every continuation that is ready, and synchronous
\* code runs to its end; that the upstream request settles is the proviso
\* of the liveness property.
Progress ==
  \/ FetchFail \/ FetchOk
  \/ StartParse \/ Load \/ Each \/ Return
  \/ Respond

\* the pages of the liveness check: termination depends on the number of
\* labels, not on what they say
LiveLabels ==
  { Label(SouthGarage, ParagraphWithSpan(<<>>, T_82, T_SpaceFull)),
    Label(WestGarage, NoSibling),
    Label(NorthGarage, ParagraphWithSpan(<<>>, T_abc, <<>>)),
    Label(EastGarage, Paragraph(T_FULL, <<>>)) }

LiveInit ==
  /\ upstream \in SeqsUpTo(LiveLabels, MaxLabels)
  /\ pc = "Idle"
  /\ html = <<>>
  /\ idx = 0
  /\ data = EmptyData
  /\ result = Null
  /\ response = NoResponse
  /\ ConcIdle /\ PageIdle /\ AppIdle /\ SiteIdle

FairSpec == LiveInit /\ [][Next]_vars /\ WF_vars(Progress)

(***************************************************************************)
(* Vocabulary of the properties.  These definitions restate the words of   *)
(* the requirements and do not use the operators of the route.             *)
(***************************************************************************)
CatalogNames == {SouthGarage, WestGarage, NorthGarage, SouthCampusGarage}

CatalogTotal(g) ==
  CASE g = SouthGarage -> 1505
    [] g = WestGarage -> 1144
    [] g = NorthGarage -> 1445
    [] g = SouthCampusGarage -> 1480

\* the text of s without the white space around it
Stripped(s) ==
  LET inner == { i \in 1..Len(s) : s[i] \notin {" ", "\n", "\t"} }
  IN  IF inner = {} THEN <<>>
      ELSE SubSeq(s, CHOOSE i \in inner : \A j \in inner : i <= j,
                     CHOOSE i \in inner : \A j \in inner : i >= j)

\* the garage a label names
GarageOf(el) == Stripped(el.name)

\* the labels of the fetched page that name a catalog garage and are the
\* last label of the page to name it
Deciding ==
  { i \in 1..Len(html) :
      /\ GarageOf(html[i]) \in CatalogNames
      /\ \A j \in (i + 1)..Len(html) : GarageOf(html[j]) # GarageOf(html[i]) }

\* the text holds "full" in some letter case
SaysFull(t) ==
  \E i \in 1..(Len(t) - 3) :
    /\ t[i] \in {"f", "F"}
    /\ t[i + 1] \in {"u", "U"}
    /\ t[i + 2] \in {"l", "L"}
    /\ t[i + 3] \in {"l", "L"}

\* all the text of the status paragraph
StatusText(sib) == sib.pre \o (IF sib.hasSpan THEN sib.span ELSE <<>>) \o sib.post

\* x rounded to the nearest integer, halves up, for x = n / 100 with n >= 0
HalfUp(n) == IF n % 100 >= 50 THEN (n \div 100) + 1 ELSE n \div 100

Succeeded == pc = "Snapshot"

Snapshot == result[1]

\* the fetched page is the single label "name" followed by "sib"
PageIs(name, sib) == html = <<Label(name, sib)>>

(***************************************************************************)
(* C1.  In every successful snapshot each entry's total is the catalog     *)
(* value of its garage (1505, 1144, 1445, 1480), whatever the page holds.  *)
(***************************************************************************)
C1_TotalIsCatalogValue ==
  Succeeded =>
    \A g \in DOMAIN Snapshot :
      g \in CatalogNames /\ Snapshot[g].total = CatalogTotal(g)

\* a snapshot of a page that shows the number 82 for South Garage
C1_Witness ==
  /\ Succeeded
  /\ \E i \in Deciding : html[i].next.hasSpan /\ html[i].next.span = T_82
  /\ SouthGarage \in DOMAIN Snapshot
  /\ Snapshot[SouthGarage].total = 1505
  /\ Cardinality(DOMAIN Snapshot) = 2

(***************************************************************************)
(* C2.  A recognized garage whose status paragraph says "full" in any      *)
(* letter case has open = 0, with or without a fullness element and        *)
(* whatever number that element holds.                                     *)
(***************************************************************************)
C2_FullGivesZero ==
  Succeeded =>
    \A i \in Deciding :
      (html[i].next.isP /\ SaysFull(StatusText(html[i].next)))
        => Snapshot[GarageOf(html[i])].open = <<0>>

\* "FuLl" in mixed case before a fullness element that holds 82%
C2_Witness ==
  /\ Succeeded
  /\ PageIs(NorthGarage, ParagraphWithSpan(T_GarageFull, T_82, <<>>))
  /\ Snapshot[NorthGarage].open = <<0>>

(***************************************************************************)
(* C3.  A recognized garage whose status text does not say "full" and      *)
(* whose fullness element holds the integer percentage p, 0 <= p <= 100,   *)
(* has open = total * (100 - p) / 100 rounded to the nearest integer,      *)
(* halves up; p = 0 gives total and p = 100 gives 0.                       *)
(***************************************************************************)
C3_OpenFromPercentage ==
  Succeeded =>
    \A i \in Deciding :
      \A p \in 0..100 :
        ( /\ html[i].next.isP
          /\ html[i].next.hasSpan
          /\ ~SaysFull(StatusText(html[i].next))
          /\ html[i].next.span \in PercentTexts(p) )
        => LET g == GarageOf(html[i])
           IN  /\ Snapshot[g].open = <<HalfUp(CatalogTotal(g) * (100 - p))>>
               /\ (p = 0 => Snapshot[g].open = <<CatalogTotal(g)>>)
               /\ (p = 100 => Snapshot[g].open = <<0>>)

\* 1505 * 90 / 100 = 1354.5, a half, is rounded up to 1355
C3_Witness ==
  /\ Succeeded
  /\ \E t \in PercentTexts(10) :
       PageIs(SouthGarage, ParagraphWithSpan(<<>>, t, <<>>))
  /\ Snapshot[SouthGarage].open = <<1355>>

(***************************************************************************)
(* C4 as stated.  The status text "82% Full" after South Garage gives      *)
(* open = 271.                                                             *)
(***************************************************************************)
C4_Original ==
  \A sib \in RichSiblings :
    (Succeeded /\ PageIs(SouthGarage, sib) /\ StatusText(sib) = T_82Full)
      => Snapshot[SouthGarage].open = <<271>>

(***************************************************************************)
(* C4 as amended.  The status text "82% Full" after South Garage gives     *)
(* open = 0, because the word "Full" overrides the percentage; the status  *)
(* text "82%" without that word gives open = 271.                          *)
(***************************************************************************)
C4_EightyTwoPercent ==
  \A sib \in RichSiblings :
    /\ (Succeeded /\ PageIs(SouthGarage, sib) /\ StatusText(sib) = T_82Full)
         => Snapshot[SouthGarage].open = <<0>>
    /\ (Succeeded /\ PageIs(SouthGarage, sib) /\ sib.hasSpan
          /\ sib.span = T_82 /\ StatusText(sib) = T_82)
         => Snapshot[SouthGarage].open = <<271>>

\* the fullness element holds "82%" and the word " Full" follows it
C4_Witness ==
  /\ Succeeded
  /\ PageIs(SouthGarage, ParagraphWithSpan(<<>>, T_82, T_SpaceFull))
  /\ Snapshot[SouthGarage].open = <<0>>

(***************************************************************************)
(* C5.  In every successful snapshot every open that is not null lies      *)
(* between 0 and total, whatever text the fullness element carries.        *)
(***************************************************************************)
C5_OpenWithinTotal ==
  Succeeded =>
    \A g \in DOMAIN Snapshot :
      Snapshot[g].open # Null =>
        (0 <= Snapshot[g].open[1] /\ Snapshot[g].open[1] <= Snapshot[g].total)

(***************************************************************************)
(* C6.  A recognized garage has open = null and total = the catalog value  *)
(* when the element after its label is no status paragraph, or when the    *)
(* status paragraph holds neither "full" nor a fullness element.           *)
(***************************************************************************)
C6_NoStatusGivesNull ==
  Succeeded =>
    \A i \in Deciding :
      ( \/ ~html[i].next.isP
        \/ (~html[i].next.hasSpan /\ ~SaysFull(StatusText(html[i].next))) )
      => /\ Snapshot[GarageOf(html[i])].open = Null
         /\ Snapshot[GarageOf(html[i])].total = CatalogTotal(GarageOf(html[i]))

\* West Garage with no status paragraph after it
C6_Witness ==
  /\ Succeeded
  /\ PageIs(WestGarage, NoSibling)
  /\ Snapshot[WestGarage] = [total |-> 1144, open |-> Null]

(***************************************************************************)
(* C7.  When the status text does not say "full" and the fullness          *)
(* element's text, once a trailing "%" and the white space around it are   *)
(* removed, is not a well-formed integer, open stays null.                 *)
(***************************************************************************)
WithoutPercent(t) ==
  LET u == Stripped(t)
  IN  IF u # <<>> /\ u[Len(u)] = "%"
      THEN Stripped(SubSeq(u, 1, Len(u) - 1))
      ELSE u

WellFormedInteger(u) ==
  LET signed == u # <<>> /\ u[1] \in {"-", "+"}
      first  == IF signed THEN 2 ELSE 1
  IN  /\ Len(u) >= first
      /\ \A i \in first..Len(u) :
           u[i] \in {"0","1","2","3","4","5","6","7","8","9"}

C7_MalformedGivesNull ==
  Succeeded =>
    \A i \in Deciding :
      ( /\ html[i].next.isP
        /\ html[i].next.hasSpan
        /\ ~SaysFull(StatusText(html[i].next))
        /\ ~WellFormedInteger(WithoutPercent(html[i].next.span)) )
      => Snapshot[GarageOf(html[i])].open = Null

(***************************************************************************)
(* C8.  A label whose trimmed text is no catalog key adds no entry and is  *)
(* no error: during and after the traversal the mapping is the one the     *)
(* page without such labels gives, its keys are catalog names, and the     *)
(* successful cycle is answered with status 200.                           *)
(***************************************************************************)
KnownOnly(labels) ==
  SelectSeq(labels, LAMBDA el : GarageOf(el) \in CatalogNames)

C8_UnknownLabelSkipped ==
  /\ ((pc = "Parsing" /\ idx >= 1) \/ Succeeded) =>
       /\ data = FoldEach(EmptyData, KnownOnly(SubSeq(html, 1, idx - 1)))
       /\ DOMAIN data \subseteq CatalogNames
  /\ Succeeded =>
       /\ Snapshot = FoldEach(EmptyData, KnownOnly(html))
       /\ response # NoResponse => response[1].status = 200

\* East Garage, then South Garage at 82%: one entry, answered with 200
C8_Witness ==
  /\ Succeeded
  /\ html = <<Label(EastGarage, Paragraph(T_FULL, <<>>)),
              Label(SouthGarage, ParagraphWithSpan(<<>>, T_82, <<>>))>>
  /\ Snapshot = (SouthGarage :> [total |-> 1505, open |-> <<271>>])
  /\ response # NoResponse
  /\ response[1].status = 200

(***************************************************************************)
(* C9.  The keys of a successful snapshot are exactly the catalog names    *)
(* that some label of the fetched page names, in whatever order the labels *)
(* come.                                                                   *)
(***************************************************************************)
C9_KeysAreNamedCatalogGarages ==
  Succeeded =>
    DOMAIN Snapshot =
      { GarageOf(html[i]) : i \in 1..Len(html) } \cap CatalogNames

\* West Garage before South Garage, South Campus Garage left out
C9_Witness ==
  /\ Succeeded
  /\ Len(html) = 2
  /\ GarageOf(html[1]) = WestGarage
  /\ GarageOf(html[2]) = SouthGarage
  /\ DOMAIN Snapshot = {SouthGarage, WestGarage}

(***************************************************************************)
(* C10.  GET answers 200 with the snapshot exactly when the fetch and the  *)
(* parse both succeeded, and otherwise 500 with an error body that is the  *)
(* same after a fetch failure and after a parse failure.                   *)
(***************************************************************************)
C10_StatusFollowsOutcome ==
  response # NoResponse =>
    \/ /\ pc = "Snapshot"
       /\ response =
            <<[status |-> 200, data |-> <<FoldEach(EmptyData, html)>>,
               error |-> <<>>]>>
    \/ /\ pc \in {"FetchFailed", "ParseFailed"}
       /\ response =
            <<[status |-> 500, data |-> <<>>,
               error |-> <<"Could not retrieve parking data.">>]>>

\* the parse failed after an entry had been built; the answer is the 500
C10_Witness ==
  /\ pc = "ParseFailed"
  /\ DOMAIN data # {}
  /\ response # NoResponse
  /\ response[1].status = 500

(***************************************************************************)
(* C11.  When the upstream fetch fails the cycle gives exactly one error   *)
(* response and no snapshot, and no exception leaves getParkingData or     *)
(* GET: the cycle is always at one of its seven places, a failed fetch     *)
(* leaves null and nothing parsed, its answer is the 500 error body, and   *)
(* an answer once sent is never replaced.                                  *)
(***************************************************************************)
CyclePlaces ==
  {"Idle", "Fetching", "Fetched", "Parsing",
   "FetchFailed", "ParseFailed", "Snapshot"}

C11_FetchFailureHandled ==
  /\ [](/\ pc \in CyclePlaces
        /\ pc = "FetchFailed" =>
             /\ result = Null
             /\ html = <<>> /\ data = EmptyData
             /\ response # NoResponse =>
                  response =
                    <<[status |-> 500, data |-> <<>>,
                       error |-> <<"Could not retrieve parking data.">>]>>)
  /\ [][response # NoResponse => response' = response]_vars

\* the fetch failed and the error response has been sent
C11_Witness ==
  /\ pc = "FetchFailed"
  /\ result = Null
  /\ response # NoResponse
  /\ response[1].status = 500

(***************************************************************************)
(* C12.  An exception at any point of parsing, also after garages have     *)
(* been written into the mapping, gives the failure value; a response      *)
(* never carries a partial snapshot.                                       *)
(***************************************************************************)
C12_NoPartialSnapshot ==
  /\ pc = "ParseFailed" =>
       /\ result = Null
       /\ response # NoResponse =>
            (response[1].status = 500 /\ response[1].data = <<>>)
  /\ (response # NoResponse /\ response[1].data # <<>>) =>
       /\ pc = "Snapshot"
       /\ DOMAIN response[1].data[1] =
            { GarageOf(html[i]) : i \in 1..Len(html) } \cap CatalogNames

\* the exception came after the first of two garages had been written
C12_Witness ==
  /\ pc = "ParseFailed"
  /\ Len(html) = 2 /\ idx = 2
  /\ Cardinality(DOMAIN data) = 1
  /\ GarageOf(html[2]) \in CatalogNames \ DOMAIN data
  /\ response # NoResponse
  /\ response[1].data = <<>>

(***************************************************************************)
(* C13.  A recognized garage whose open count cannot be determined does    *)
(* not abort the cycle: its callback returns, and the snapshot holds it    *)
(* with open = null and holds every other garage as it would be had that   *)
(* garage's status been determinable.                                      *)
(***************************************************************************)
Undeterminable(sib) ==
  \/ ~sib.isP
  \/ /\ ~SaysFull(StatusText(sib))
     /\ \/ ~sib.hasSpan
        \/ \A k \in 1..Len(sib.span) :
             sib.span[k] \notin {"0","1","2","3","4","5","6","7","8","9"}

\* the fetched page with the status of label i replaced by "82%"
WithStatusKnown(i) ==
  [html EXCEPT ![i].next = ParagraphWithSpan(<<>>, T_82, <<>>)]

C13_UnknownOpenDoesNotAbort ==
  /\ ( /\ pc = "Parsing" /\ idx >= 1 /\ idx <= Len(html)
       /\ Undeterminable(html[idx].next) )
     => ENABLED (Each /\ pc' = "Parsing")
  /\ Succeeded =>
       \A i \in Deciding :
         Undeterminable(html[i].next) =>
           /\ GarageOf(html[i]) \in DOMAIN Snapshot
           /\ Snapshot[GarageOf(html[i])].open = Null
           /\ \A g \in DOMAIN Snapshot \ {GarageOf(html[i])} :
                Snapshot[g] = FoldEach(EmptyData, WithStatusKnown(i))[g]
           /\ response # NoResponse => response[1].status = 200

\* West Garage without status before South Garage at 82%
C13_Witness ==
  /\ Succeeded
  /\ html = <<Label(WestGarage, NoSibling),
              Label(SouthGarage, ParagraphWithSpan(<<>>, T_82, <<>>))>>
  /\ Snapshot[WestGarage].open = Null
  /\ Snapshot[SouthGarage].open = <<271>>
  /\ response # NoResponse

(***************************************************************************)
(* C19.  A cycle moves only along Idle -> Fetching -> FetchFailed or       *)
(* Fetched, Fetched -> Parsing, Parsing -> ParseFailed or Snapshot:        *)
(* parsing starts only after a successful fetch and the three final        *)
(* places are never left.                                                  *)
(***************************************************************************)
CycleMoves ==
  { <<"Idle", "Fetching">>,
    <<"Fetching", "FetchFailed">>, <<"Fetching", "Fetched">>,
    <<"Fetched", "Parsing">>,
    <<"Parsing", "ParseFailed">>, <<"Parsing", "Snapshot">> }

C19_CycleStateMachine ==
  [][ /\ (pc' # pc => <<pc, pc'>> \in CycleMoves)
      /\ (pc \in {"FetchFailed", "ParseFailed", "Snapshot"} => pc' = pc)
      /\ (pc' = "Parsing" /\ pc # "Parsing" => html = upstream /\ result = Null)
    ]_vars

\* a cycle that went all the way to the snapshot of a two-label page
C19_Witness ==
  /\ pc = "Snapshot"
  /\ Len(html) = 2 /\ idx = 3
  /\ response = NoResponse

(***************************************************************************)
(* C20.  Provided the upstream request settles, every started cycle        *)
(* reaches FetchFailed, ParseFailed or Snapshot and GET sends its          *)
(* response.                                                               *)
(***************************************************************************)
C20_CycleTerminates ==
  (pc = "Fetching") ~>
    (pc \in {"FetchFailed", "ParseFailed", "Snapshot"} /\ response # NoResponse)

\* the response of a cycle that parsed a one-label page has been sent
C20_Witness ==
  /\ pc = "Snapshot"
  /\ Len(html) = 1 /\ idx = 2
  /\ response # NoResponse
  /\ response[1].status = 200

(***************************************************************************)
(* C21.  A cycle issues exactly one upstream request: none before the      *)
(* handler is invoked, one from then on, also after the fetch failed and   *)
(* after the response was sent.                                            *)
(***************************************************************************)
C21_OneRequestPerCycle ==
  /\ Len(outbound) = (IF pc = "Idle" THEN 0 ELSE 1)
  /\ \A i \in 1..Len(outbound) :
       outbound[i].route = "parking" /\ outbound[i].url = ParkingUrl

\* the failure answered, one request on the log
C21_Witness ==
  /\ pc = "FetchFailed"
  /\ response # NoResponse
  /\ Len(outbound) = 1

(***************************************************************************)
(* C22.  When a catalog garage is named by several labels the snapshot     *)
(* has the entry that the last of them gives on a page of its own: a last  *)
(* label without a determinable status leaves open = null whatever an      *)
(* earlier label said.                                                     *)
(***************************************************************************)
C22_LastOccurrenceWins ==
  Succeeded =>
    \A i \in Deciding :
      /\ GarageOf(html[i]) \in DOMAIN Snapshot
      /\ Snapshot[GarageOf(html[i])] =
           FoldEach(EmptyData, <<html[i]>>)[GarageOf(html[i])]

\* South Garage at 82%, then South Garage again without a status
C22_Witness ==
  /\ Succeeded
  /\ html = <<Label(SouthGarage, ParagraphWithSpan(<<>>, T_82, <<>>)),
              Label(SouthGarage, NoSibling)>>
  /\ DOMAIN Snapshot = {SouthGarage}
  /\ Snapshot[SouthGarage].open = Null

(***************************************************************************)
(* C23.  A page parsed to its end that names no catalog garage gives the   *)
(* empty mapping, answered with status 200 and the body {}.                *)
(***************************************************************************)
C23_EmptyMappingIsSuccess ==
  (/\ pc \in {"Parsing", "Snapshot"}
   /\ \A i \in 1..Len(html) : GarageOf(html[i]) \notin CatalogNames)
    => /\ pc = "Parsing" /\ idx > Len(html) => ENABLED Return
       /\ Succeeded =>
            /\ DOMAIN Snapshot = {}
            /\ response # NoResponse =>
                 /\ response[1].status = 200
                 /\ response[1].error = <<>>
                 /\ DOMAIN response[1].data[1] = {}

\* a page whose only label is East Garage, answered
C23_Witness ==
  /\ Succeeded
  /\ Len(html) = 1 /\ GarageOf(html[1]) = EastGarage
  /\ response # NoResponse
  /\ response[1].status = 200

(***************************************************************************)
(* The parking page: the client that polls GET /api/parking and draws one  *)
(* card per entry of the body it received.                                 *)
(***************************************************************************)
MaxRefresh == 3

\* a property read that finds nothing
Undefined == <<0, 0>>

IsNumber(v) == Len(v) = 1

NullLiteral == <<"n", "u", "l", "l">>

\* JSON.stringify of an open count: null stays null, a number is written
\* in decimal
JsonStringify(v) == IF v = Null THEN NullLiteral ELSE SignedNumeral(v[1])

\* JSON.parse of what JsonStringify wrote
JsonParse(t) == IF t = NullLiteral THEN Null ELSE ParseInt(t)

ErrorKey == <<"e", "r", "r", "o", "r">>

\* the fetch promise rejected or the body was not JSON
Rejected == <<[status |-> 0, data |-> <<>>, error |-> <<>>]>>

\* the pages the upstream serves while the parking page is open
PageLabels ==
  { Label(SouthGarage, Paragraph(T_FULL, <<>>)),
    Label(SouthGarage, NoSibling),
    Label(WestGarage, ParagraphWithSpan(<<>>, T_82, <<>>)),
    Label(NorthGarage, NoSibling),
    Label(EastGarage, Paragraph(T_FULL, <<>>)) }

\* what GET /api/parking can answer: a snapshot of one of the pages or the
\* error response
PageResponses ==
  { ResponseFor(<<FoldEach(EmptyData, p)>>) :
      p \in SeqsUpTo(PageLabels, MaxLabels) }
    \cup {ResponseFor(Null)}

\* await res.json(): the body as the page holds it, whatever the status.
\* Each key is mapped to what details.open and details.total read from its
\* value; the value of the key "error" is a string, which has neither.
JsonBody(res) ==
  IF res[1].error # <<>>
  THEN [k \in {ErrorKey} |-> [open |-> Undefined, total |-> Undefined]]
  ELSE LET d == res[1].data[1]
       IN  [k \in DOMAIN d |->
              [open  |-> JsonParse(JsonStringify(d[k].open)),
               total |-> JsonParse(JsonStringify(<<d[k].total>>))]]

\* getOccupancyStatus over the percentage num/den (den > 0)
OccupancyStatus(num, den) ==
  IF num >= 100 * den THEN "Full"
  ELSE IF num > 90 * den THEN "Nearly Full"
  ELSE IF num > 80 * den THEN "Very Full"
  ELSE IF num > 60 * den THEN "Moderately Full"
  ELSE IF num > 30 * den THEN "Available"
  ELSE "Plenty of Space"

\* the card without figures
NotAvailable(name) ==
  [name |-> name, figure |-> FALSE, notice |-> "Data not available",
   percent |-> <<>>, openSpots |-> <<>>, total |-> <<>>, status |-> ""]

\* the card with figures: occupancy is 0 unless total > 0, and is NaN when
\* total > 0 but the open count is not a number
WithFigures(name, open, total) ==
  LET openSpots == open
      positive  == IsNumber(total) /\ total[1] > 0
      known     == positive /\ IsNumber(openSpots)
      num       == IF known THEN (total[1] - openSpots[1]) * 100 ELSE 0
      den       == IF known THEN total[1] ELSE 1
  IN  [name |-> name, figure |-> TRUE, notice |-> "",
       percent   |-> IF positive /\ ~known THEN NaN
                     ELSE <<MathRound(num, den)>>,
       openSpots |-> openSpots,
       total     |-> total,
       status    |-> IF positive /\ ~known THEN "Plenty of Space"
                     ELSE OccupancyStatus(num, den)]

\* the branch chosen by truthiness: an open count of 0 taken for missing
ParkingCard_Truthy(name, open, total) ==
  IF open # Null /\ open # <<0>> /\ open # Undefined
  THEN WithFigures(name, open, total)
  ELSE NotAvailable(name)

\* ParkingCard: figures unless open is null
ParkingCard(name, open, total) ==
  IF open # Null
  THEN WithFigures(name, open, total)
  ELSE NotAvailable(name)

\* what the page draws below its heading
Screen(isLoading, d) ==
  IF isLoading THEN [view |-> "skeleton", cards |-> {}]
  ELSE IF d # Null
  THEN [view  |-> "cards",
        cards |-> { ParkingCard(k, d[1][k].open, d[1][k].total) :
                      k \in DOMAIN d[1] }]
  ELSE [view |-> "message", cards |-> {}]

\* fetchData is called: on mount and on every tick of the 30 s interval
FetchData ==
  /\ issued < MaxRefresh
  /\ issued' = issued + 1
  /\ inflight' = inflight \cup {issued + 1}
  /\ UNCHANGED <<pageData, loading, received, displayed>>

\* a request is answered: setData(jsonData), then setLoading(false)
Settle(id, res) ==
  /\ id \in inflight
  /\ inflight' = inflight \ {id}
  /\ pageData' = <<JsonBody(res)>>
  /\ loading' = FALSE
  /\ received' = res
  /\ displayed' = id
  /\ UNCHANGED issued

\* setLoading(false) at the end of the try block instead of in finally
Reject_StaysLoading(id) ==
  /\ id \in inflight
  /\ inflight' = inflight \ {id}
  /\ pageData' = Null
  /\ received' = Rejected
  /\ displayed' = id
  /\ UNCHANGED <<issued, loading>>

\* a request throws: setData(null), then setLoading(false)
Reject(id) ==
  /\ id \in inflight
  /\ inflight' = inflight \ {id}
  /\ pageData' = Null
  /\ loading' = FALSE
  /\ received' = Rejected
  /\ displayed' = id
  /\ UNCHANGED issued

PageInit == CycleIdle /\ ConcIdle /\ AppIdle /\ SiteIdle /\ PageIdle

PageNext ==
  /\ \/ FetchData
     \/ \E id \in 1..MaxRefresh, res \in PageResponses : Settle(id, res)
     \/ \E id \in 1..MaxRefresh : Reject(id)
  /\ UNCHANGED <<upstream, pc, html, idx, data, result, response>>
  /\ UNCHANGED <<concVars, appVars, siteVars>>

SpecPage == PageInit /\ [][PageNext]_vars

\* the page is showing what the last answer left
Showing == Screen(loading, pageData)

\* the card drawn for the key k
CardOf(k) == CHOOSE c \in Showing.cards : c.name = k

\* the snapshot of the last answer, when it was a 200
LastSnapshot == received[1].data[1]

LastWasSnapshot ==
  received # NoResponse /\ received # Rejected /\ received[1].status = 200

(***************************************************************************)
(* C14.  A garage whose open count is null is drawn as "Data not           *)
(* available", and only that garage; after the API answered 500 with the   *)
(* error body the page draws no card and no occupancy figure.              *)
(***************************************************************************)
C14_FailureShowsNoCard ==
  /\ LastWasSnapshot =>
       /\ Showing.view = "cards"
       /\ \A g \in DOMAIN LastSnapshot :
            (LastSnapshot[g].open = Null) <=> ~CardOf(g).figure
  /\ received = JsonError =>
       /\ Showing.cards = {}
       /\ Showing.view # "cards"

(***************************************************************************)
(* C15.  Unknown and confirmed full stay apart from the snapshot to the    *)
(* screen: the body the page holds has null where the snapshot has null    *)
(* and 0 where it has 0; the card of an open count of 0 reads 100% and     *)
(* "Full", the card of a null open count reads "Data not available" and    *)
(* has no percentage, no spot count and no status.                         *)
(***************************************************************************)
C15_NullAndZeroStayDistinct ==
  LastWasSnapshot =>
    \A g \in DOMAIN LastSnapshot :
      /\ pageData[1][g].open = LastSnapshot[g].open
      /\ LastSnapshot[g].open = <<0>> =>
           /\ CardOf(g).figure
           /\ CardOf(g).percent = <<100>>
           /\ CardOf(g).openSpots = <<0>>
           /\ CardOf(g).status = "Full"
           /\ CardOf(g).notice = ""
      /\ LastSnapshot[g].open = Null =>
           /\ ~CardOf(g).figure
           /\ CardOf(g).notice = "Data not available"
           /\ CardOf(g).percent = <<>>
           /\ CardOf(g).openSpots = <<>>
           /\ CardOf(g).status = ""

\* South Garage confirmed full next to North Garage without data
C15_Witness ==
  /\ LastWasSnapshot
  /\ DOMAIN LastSnapshot = {SouthGarage, NorthGarage}
  /\ LastSnapshot[SouthGarage].open = <<0>>
  /\ LastSnapshot[NorthGarage].open = Null
  /\ CardOf(SouthGarage).status = "Full"
  /\ ~CardOf(NorthGarage).figure

\* a request in flight is answered or throws
Settling ==
  /\ \/ \E id \in 1..MaxRefresh, res \in PageResponses : Settle(id, res)
     \/ \E id \in 1..MaxRefresh : Reject(id)
  /\ UNCHANGED <<upstream, pc, html, idx, data, result, response>>
  /\ UNCHANGED <<concVars, appVars, siteVars>>

\* the effect that calls fetchData on mount does run
Mounting ==
  /\ issued = 0
  /\ FetchData
  /\ UNCHANGED <<upstream, pc, html, idx, data, result, response>>
  /\ UNCHANGED <<concVars, appVars, siteVars>>

\* the page when every request settles in the end
FairSpecPage ==
  PageInit /\ [][PageNext]_vars /\ WF_vars(Mounting) /\ WF_vars(Settling)

\* the requests that have settled
SettledIds == (1..issued) \ inflight

(***************************************************************************)
(* C24.  With refreshes overlapping, what the page shows never comes from  *)
(* a request issued before another request that has already settled: the   *)
(* answer on the screen is that of the latest settled request.             *)
(***************************************************************************)
C24_NoStaleOverwrite ==
  \A id \in SettledIds : id <= displayed

(***************************************************************************)
(* C25.  As first stated: loading stays true as long as the request        *)
(* issued on mount has not settled.                                        *)
(***************************************************************************)
C25_Original ==
  (issued >= 1 /\ 1 \in inflight) => loading

(***************************************************************************)
(* C25.  loading is true from mount until the first settlement of any      *)
(* request, is false from then on whether that request was answered or     *)
(* threw, never turns true again, and once the page has mounted and its    *)
(* requests settle the page leaves the loading state.                      *)
(***************************************************************************)
C25_LoadingUntilFirstSettlement ==
  /\ [](loading <=> SettledIds = {})
  /\ [][~loading => ~loading']_vars
  /\ [][loading /\ ~loading' => displayed' \in inflight]_vars
  /\ (loading ~> ~loading)

\* the first settlement was a throw, a later refresh is in flight and the
\* page is not loading
C25_Witness ==
  /\ ~loading
  /\ received = Rejected
  /\ displayed = 1
  /\ pageData = Null
  /\ inflight = {2}

(***************************************************************************)
(* Several ingestion cycles in flight at once.  Every call of GET runs     *)
(* getParkingData with locals of its own (html, the cursor of the each     *)
(* loop, data, the returned value); the only module-level object is the    *)
(* catalog, which no statement assigns to.  The steps of the cycles        *)
(* interleave at will.                                                     *)
(***************************************************************************)
NumCycles == 2

MaxConcLabels == 1

CycleIds == 1..NumCycles

ConcLabels ==
  { Label(SouthGarage, ParagraphWithSpan(<<>>, T_82, <<>>)),
    Label(WestGarage, NoSibling) }

\* the pages the upstream may serve to any one request
ConcPages == SeqsUpTo(ConcLabels, MaxConcLabels)

\* the locals of a call that has not started
NewCycle ==
  [pc |-> "Idle", html |-> <<>>, idx |-> 0, data |-> EmptyData,
   result |-> Null, response |-> NoResponse]

CRequest(c) ==
  /\ cycles[c].pc = "Idle"
  /\ cycles' = [cycles EXCEPT ![c].pc = "Fetching"]

CFetchFail(c) ==
  /\ cycles[c].pc = "Fetching"
  /\ cycles' = [cycles EXCEPT ![c].pc = "FetchFailed", ![c].result = Null]

CFetchOk(c, page) ==
  /\ cycles[c].pc = "Fetching"
  /\ cycles' = [cycles EXCEPT ![c].pc = "Fetched", ![c].html = page]

CStartParse(c) ==
  /\ cycles[c].pc = "Fetched"
  /\ cycles' = [cycles EXCEPT ![c].pc = "Parsing", ![c].idx = 0]

\* data kept at module level and never emptied: a call starts from what an
\* earlier call returned
CLoad_KeepsLast(c) ==
  /\ cycles[c].pc = "Parsing" /\ cycles[c].idx = 0
  /\ LET done == { d \in CycleIds : cycles[d].result # Null }
     IN  cycles' = [cycles EXCEPT
                      ![c].data = IF done = {} THEN EmptyData
                                  ELSE cycles[CHOOSE d \in done : TRUE].result[1],
                      ![c].idx  = 1]

\* const data = {} inside the call
CLoad(c) ==
  /\ cycles[c].pc = "Parsing" /\ cycles[c].idx = 0
  /\ cycles' = [cycles EXCEPT ![c].data = EmptyData, ![c].idx = 1]

\* one data object shared by all calls
CEach_SharedData(c) ==
  /\ cycles[c].pc = "Parsing"
  /\ cycles[c].idx >= 1 /\ cycles[c].idx <= Len(cycles[c].html)
  /\ cycles' = [cycles EXCEPT
                  ![1].data = EachCallback(cycles[1].data,
                                           cycles[c].html[cycles[c].idx]),
                  ![c].idx  = cycles[c].idx + 1]

CEach(c) ==
  /\ cycles[c].pc = "Parsing"
  /\ cycles[c].idx >= 1 /\ cycles[c].idx <= Len(cycles[c].html)
  /\ cycles' = [cycles EXCEPT
                  ![c].data = EachCallback(cycles[c].data,
                                           cycles[c].html[cycles[c].idx]),
                  ![c].idx  = cycles[c].idx + 1]

CReturn(c) ==
  /\ cycles[c].pc = "Parsing" /\ cycles[c].idx > Len(cycles[c].html)
  /\ cycles' = [cycles EXCEPT ![c].pc = "Snapshot",
                              ![c].result = <<cycles[c].data>>]

CParseThrow(c) ==
  /\ cycles[c].pc = "Parsing"
  /\ cycles' = [cycles EXCEPT ![c].pc = "ParseFailed", ![c].result = Null]

CRespond(c) ==
  /\ cycles[c].pc \in Terminal /\ cycles[c].response = NoResponse
  /\ cycles' = [cycles EXCEPT ![c].response = ResponseFor(cycles[c].result)]

ConcInit ==
  /\ CycleIdle /\ PageIdle /\ AppIdle /\ SiteIdle
  /\ cycles = [c \in CycleIds |-> NewCycle]

ConcNext ==
  /\ \E c \in CycleIds :
       \/ CRequest(c)
       \/ CFetchFail(c)
       \/ \E page \in ConcPages : CFetchOk(c, page)
       \/ CStartParse(c)
       \/ CLoad(c)
       \/ CEach(c)
       \/ CReturn(c)
       \/ CParseThrow(c)
       \/ CRespond(c)
  /\ UNCHANGED <<upstream, pc, html, idx, data, result, response>>
  /\ UNCHANGED <<pageVars, appVars, siteVars>>

SpecConc == ConcInit /\ [][ConcNext]_vars

\* the response of a cycle that ran alone and ended where cycle c ended
AloneResponse(c) ==
  IF cycles[c].pc = "Snapshot"
  THEN JsonOk(FoldEach(EmptyData, cycles[c].html))
  ELSE JsonError

\* the catalog garages named on the page of cycle c
NamedOnPage(c) ==
  { GarageOf(cycles[c].html[i]) : i \in 1..Len(cycles[c].html) }
    \cap CatalogNames

(***************************************************************************)
(* C16.  With cycles running side by side, under every interleaving, the   *)
(* response of each cycle is the response it gives when it runs alone on   *)
(* its own page; a step of one cycle changes nothing of another; every     *)
(* total in a snapshot is still the catalog's.                             *)
(***************************************************************************)
C16_CyclesAreIndependent ==
  /\ [](\A c \in CycleIds :
          /\ cycles[c].response # NoResponse =>
               cycles[c].response = AloneResponse(c)
          /\ cycles[c].result # Null =>
               \A g \in DOMAIN cycles[c].result[1] :
                 cycles[c].result[1][g].total = CatalogTotal(g))
  /\ [][\A c \in CycleIds :
          cycles'[c] # cycles[c] =>
            \A d \in CycleIds \ {c} : cycles'[d] = cycles[d]]_vars

\* both cycles parsing at once, then answering for different pages
C16_Witness ==
  /\ cycles[1].html = <<Label(SouthGarage, ParagraphWithSpan(<<>>, T_82, <<>>))>>
  /\ cycles[2].html = <<Label(WestGarage, NoSibling)>>
  /\ cycles[1].response # NoResponse /\ cycles[1].response[1].status = 200
  /\ cycles[2].response # NoResponse /\ cycles[2].response[1].status = 200
  /\ DOMAIN cycles[1].response[1].data[1] = {SouthGarage}
  /\ DOMAIN cycles[2].response[1].data[1] = {WestGarage}

(***************************************************************************)
(* C17.  What a cycle returns depends on the page it fetched and on        *)
(* nothing else: it is the each loop applied to that page from the empty   *)
(* object, so two cycles with the same page return the same mapping and a  *)
(* garage the page does not name has no entry, whatever another cycle      *)
(* returned.                                                               *)
(***************************************************************************)
C17_SnapshotFromOwnPageOnly ==
  \A c \in CycleIds :
    cycles[c].pc = "Snapshot" =>
      /\ cycles[c].result = <<FoldEach(EmptyData, cycles[c].html)>>
      /\ DOMAIN cycles[c].result[1] = NamedOnPage(c)
      /\ \A d \in CycleIds :
           cycles[d].pc = "Snapshot" /\ cycles[d].html = cycles[c].html =>
             cycles[d].result = cycles[c].result

\* South Garage in the snapshot one cycle has answered with, and no entry
\* for it in the snapshot of the cycle whose page does not name it
C17_Witness ==
  /\ cycles[1].pc = "Snapshot" /\ cycles[1].response # NoResponse
  /\ SouthGarage \in DOMAIN cycles[1].result[1]
  /\ cycles[2].pc = "Snapshot"
  /\ cycles[2].html = <<Label(WestGarage, NoSibling)>>
  /\ DOMAIN cycles[2].result[1] = {WestGarage}

(***************************************************************************)
(* The outbound requests of the server routes.  Every request is logged    *)
(* with the route that sent it, its address and whether the peer's         *)
(* certificate was validated.  A request made with fetch follows the       *)
(* process-wide setting; the parking request carries an agent of its own.  *)
(***************************************************************************)
\* the now-playing route: nothing is sent without an API key
NowPlayingGet(hasKey) ==
  /\ Len(outbound) < MaxRequests
  /\ outbound' = IF hasKey
                 THEN Append(outbound, Sent("now-playing", LastFmUrl, tlsDefault))
                 ELSE outbound
  /\ UNCHANGED tlsDefault

\* the contributions route
ContributionsGet ==
  /\ Len(outbound) < MaxRequests
  /\ outbound' = Append(outbound,
                        Sent("contributions", ContributionsUrl, tlsDefault))
  /\ UNCHANGED tlsDefault

\* the resume route
ResumeGet ==
  /\ Len(outbound) < MaxRequests
  /\ outbound' = Append(outbound, Sent("resume", ResumeUrl, tlsDefault))
  /\ UNCHANGED tlsDefault

AppInit == CycleIdle /\ ConcIdle /\ PageIdle /\ SiteIdle /\ AppIdle

AppNext ==
  /\ \/ ParkingGet
     \/ \E hasKey \in BOOLEAN : NowPlayingGet(hasKey)
     \/ ContributionsGet
     \/ ResumeGet
  /\ UNCHANGED <<upstream, pc, html, idx, data, result, response>>
  /\ UNCHANGED <<concVars, pageVars, siteVars>>

SpecApp == AppInit /\ [][AppNext]_vars

(***************************************************************************)
(* C18.  Certificate validation is off for the parking request to the      *)
(* fixed upstream address and for nothing else: every request sent         *)
(* without validation is the parking route's request to that address, and  *)
(* the requests of the now-playing, contributions and resume routes are    *)
(* validated.                                                              *)
(***************************************************************************)
C18_BypassOnlyForUpstream ==
  /\ tlsDefault
  /\ \A i \in 1..Len(outbound) :
       /\ ~outbound[i].verified =>
            outbound[i].route = "parking" /\ outbound[i].url = ParkingUrl
       /\ outbound[i].route = "parking" => outbound[i].url = ParkingUrl
       /\ outbound[i].route \in {"now-playing", "contributions", "resume"} =>
            outbound[i].verified /\ outbound[i].url # ParkingUrl

\* the parking request went out first, then one request of each other route
C18_Witness ==
  /\ Len(outbound) = 4
  /\ outbound[1].route = "parking" /\ ~outbound[1].verified
  /\ { outbound[i].route : i \in 2..4 } =
       {"now-playing", "contributions", "resume"}
  /\ \A i \in 2..4 : outbound[i].verified

(***************************************************************************)
(* The home page: the theme, first set by the script of the layout and     *)
(* then by the page's mount effect and its toggle button, and the two      *)
(* accordions of the work-experience and hackathon lists.                  *)
(***************************************************************************)
WorkItems == 6

HackathonItems == 8

Light == <<"light">>

Dark == <<"dark">>

\* what localStorage may hold under the key "theme" when the page is opened:
\* nothing, a theme, the empty string or some other text
StoredValues == {Null, Light, Dark, <<"">>, <<"blue">>}

\* themeScript: stored || (prefersDark ? "dark" : "light")
ScriptTheme(st, pd) ==
  IF st # Null /\ st # <<"">> THEN st
  ELSE IF pd THEN Dark ELSE Light

\* whatever is stored taken for a theme
InitialTheme_AnyStored(st, pd) ==
  IF st # Null THEN st
  ELSE IF pd THEN Dark ELSE Light

\* the mount effect: the stored value when it is a theme, else the system
\* preference
InitialTheme(st, pd) ==
  IF st = Light \/ st = Dark THEN st
  ELSE IF pd THEN Dark ELSE Light

\* theme === "dark" ? "light" : "dark"
NextTheme(t) == IF t = Dark THEN Light ELSE Dark

\* the accordion without the branch that closes the open item
Toggle_NeverCloses(openIndex, index) == <<index>>

\* toggle of useSequentialAccordion: the next openIndex
Toggle(openIndex, index) ==
  IF openIndex = <<index>> THEN Null ELSE <<index>>

\* the script in the document head runs before the page hydrates
ThemeScript ==
  /\ homePc = "served"
  /\ homePc' = "scripted"
  /\ dataTheme' = ScriptTheme(stored, prefersDark)
  /\ UNCHANGED <<stored, prefersDark, theme, experienceOpen, hackathonOpen>>

\* the mount effect: applyTheme(t); setTheme(t)
MountEffect ==
  /\ homePc = "scripted"
  /\ homePc' = "mounted"
  /\ LET t == InitialTheme(stored, prefersDark)
     IN  /\ dataTheme' = t
         /\ stored' = t
         /\ theme' = t
  /\ UNCHANGED <<prefersDark, experienceOpen, hackathonOpen>>

\* the button is disabled while theme is null
ToggleTheme ==
  /\ homePc = "mounted" /\ theme # Null
  /\ LET nextTheme == NextTheme(theme)
     IN  /\ dataTheme' = nextTheme
         /\ stored' = nextTheme
         /\ theme' = nextTheme
  /\ UNCHANGED <<homePc, prefersDark, experienceOpen, hackathonOpen>>

ToggleExperience(index) ==
  /\ homePc = "mounted"
  /\ experienceOpen' = Toggle(experienceOpen, index)
  /\ UNCHANGED <<homePc, stored, prefersDark, theme, dataTheme, hackathonOpen>>

ToggleHackathon(index) ==
  /\ homePc = "mounted"
  /\ hackathonOpen' = Toggle(hackathonOpen, index)
  /\ UNCHANGED <<homePc, stored, prefersDark, theme, dataTheme, experienceOpen>>

HomeInit ==
  /\ CycleIdle /\ ConcIdle /\ PageIdle /\ AppIdle /\ RouteIdle
  /\ homePc = "served"
  /\ stored \in StoredValues
  /\ prefersDark \in BOOLEAN
  /\ theme = Null
  /\ dataTheme = Null
  /\ experienceOpen = Null
  /\ hackathonOpen = Null

HomeNext ==
  /\ \/ ThemeScript
     \/ MountEffect
     \/ ToggleTheme
     \/ \E index \in 0..(WorkItems - 1) : ToggleExperience(index)
     \/ \E index \in 0..(HackathonItems - 1) : ToggleHackathon(index)
  /\ UNCHANGED <<upstream, pc, html, idx, data, result, response>>
  /\ UNCHANGED <<concVars, pageVars, appVars, routeVars>>

SpecHome == HomeInit /\ [][HomeNext]_vars

\* the items an accordion of n items draws open: isOpen = (openIndex === index)
OpenItems(openIndex, n) == { i \in 0..(n - 1) : openIndex = <<i>> }

(***************************************************************************)
(* C26.  In each accordion at most one item is open; toggling the open     *)
(* item leaves none open, toggling another item leaves exactly that item   *)
(* open, and a toggle in one accordion leaves the other accordion as it    *)
(* was.                                                                    *)
(***************************************************************************)
C26_AtMostOneOpen ==
  /\ [](/\ Cardinality(OpenItems(experienceOpen, WorkItems)) <= 1
        /\ Cardinality(OpenItems(hackathonOpen, HackathonItems)) <= 1)
  /\ [](homePc = "mounted" =>
          /\ \A i \in 0..(WorkItems - 1) :
               ENABLED (/\ ToggleExperience(i)
                        /\ experienceOpen' =
                             (IF i \in OpenItems(experienceOpen, WorkItems)
                              THEN Null ELSE <<i>>))
          /\ \A i \in 0..(HackathonItems - 1) :
               ENABLED (/\ ToggleHackathon(i)
                        /\ hackathonOpen' =
                             (IF i \in OpenItems(hackathonOpen, HackathonItems)
                              THEN Null ELSE <<i>>)))
  /\ [][\A i \in 0..(WorkItems - 1) :
          ToggleExperience(i) =>
            /\ OpenItems(experienceOpen', WorkItems) =
                 (IF i \in OpenItems(experienceOpen, WorkItems) THEN {} ELSE {i})
            /\ hackathonOpen' = hackathonOpen]_vars
  /\ [][\A i \in 0..(HackathonItems - 1) :
          ToggleHackathon(i) =>
            /\ OpenItems(hackathonOpen', HackathonItems) =
                 (IF i \in OpenItems(hackathonOpen, HackathonItems) THEN {} ELSE {i})
            /\ experienceOpen' = experienceOpen]_vars

\* one item open in each accordion
C26_Witness ==
  /\ OpenItems(experienceOpen, WorkItems) = {2}
  /\ OpenItems(hackathonOpen, HackathonItems) = {5}

(***************************************************************************)
(* C27.  Once the page has mounted the theme is "light" or "dark", and     *)
(* the component's theme, the document's data-theme attribute and the      *)
(* localStorage entry are equal; the mount effect takes a stored theme     *)
(* and else the system preference; every toggle flips the theme, so two    *)
(* toggles give the theme back.                                            *)
(***************************************************************************)
C27_ThemeConsistent ==
  /\ [](homePc = "mounted" =>
          /\ theme \in {Light, Dark}
          /\ dataTheme = theme
          /\ stored = theme
          /\ ENABLED (ToggleTheme /\ theme' \in {Light, Dark} \ {theme}))
  /\ [][homePc = "scripted" /\ homePc' = "mounted" =>
          theme' = (IF stored \in {Light, Dark} THEN stored
                    ELSE IF prefersDark THEN Dark ELSE Light)]_vars
  /\ [][ToggleTheme =>
          /\ theme' \in {Light, Dark} \ {theme}
          /\ \A t \in {Light, Dark} \ {theme'} : t = theme]_vars

\* the system prefers dark and the page is light: the theme was stored or
\* toggled
C27_Witness ==
  /\ homePc = "mounted"
  /\ prefersDark
  /\ theme = Light /\ dataTheme = Light /\ stored = Light

(***************************************************************************)
(* The other routes: now-playing (Last.fm), contributions and resume.      *)
(* Each handler is a function of what its environment and its upstream     *)
(* give it and keeps nothing between calls, so one call is followed from   *)
(* its inputs to its response: call holds the route and the inputs,        *)
(* answer the response.                                                    *)
(***************************************************************************)
MaxImages == 2

MaxDays == 2

\* ---- now-playing ----

\* a 200 response with an error text, isPlaying false and no track
NowPlayingFailure(msg) ==
  [status |-> 200, isPlaying |-> FALSE, track |-> Null, error |-> <<msg>>]

\* the text of the first image of the given size, "" when there is none
RECURSIVE ImageText(_, _)
ImageText(images, size) ==
  IF images = <<>> THEN ""
  ELSE IF Head(images).size = size THEN Head(images).text
  ELSE ImageText(Tail(images), size)

\* large || medium || ''
AlbumArt(images) ==
  IF ImageText(images, "large") # "" THEN ImageText(images, "large")
  ELSE IF ImageText(images, "medium") # "" THEN ImageText(images, "medium")
  ELSE ""

\* isPlaying taken from the presence of the attribute
IsNowPlaying_AnyAttr(track) == track.attr # Null

\* track['@attr']?.nowplaying === 'true'
IsNowPlaying(track) == track.attr = <<"true">>

\* the now-playing handler
NowPlayingAnswer(in) ==
  IF ~in.hasKey THEN NowPlayingFailure("Last.fm API key not configured")
  ELSE IF in.fetch = "throws"
  THEN NowPlayingFailure("Failed to fetch Last.fm data")
  ELSE IF in.fetch = "notOk"
  THEN IF in.textThrows
       THEN NowPlayingFailure("Failed to fetch Last.fm data")
       ELSE NowPlayingFailure("Last.fm API error")
  ELSE IF in.body.kind \in {"notJson", "null"}
  THEN NowPlayingFailure("Failed to fetch Last.fm data")
  ELSE IF in.body.tracks = Null \/ in.body.tracks = <<<<>>>>
  THEN [status |-> 200, isPlaying |-> FALSE, track |-> Null, error |-> Null]
  ELSE LET track == in.body.tracks[1][1]
       IN  IF track.images = Null \/ ~track.hasArtist
           THEN NowPlayingFailure("Failed to fetch Last.fm data")
           ELSE [status    |-> 200,
                 isPlaying |-> IsNowPlaying(track),
                 track     |-> <<[name     |-> track.name,
                                  albumArt |-> AlbumArt(track.images[1])]>>,
                 error     |-> Null]

Images ==
  { [size |-> "large", text |-> "L.png"], [size |-> "large", text |-> ""],
    [size |-> "medium", text |-> "M.png"], [size |-> "small", text |-> "S.png"] }

\* the first track of the upstream body: its @attr.nowplaying (null when
\* the attribute is missing), its images (null when the field is missing)
\* and whether it has an artist
Tracks ==
  [name : {"song"},
   attr : {Null, <<"true">>, <<"false">>, <<"TRUE">>, <<"1">>},
   images : {Null} \cup { <<q>> : q \in SeqsUpTo(Images, MaxImages) },
   hasArtist : BOOLEAN]

\* what response.json() gives: not JSON, the value null, or an object whose
\* recenttracks.track is missing (null), empty or a list that starts with a
\* track
LastFmBodies ==
  [kind : {"notJson", "null"}, tracks : {Null}]
    \cup [kind : {"object"},
          tracks : {Null, <<<<>>>>} \cup { <<<<t>>>> : t \in Tracks }]

NowPlayingInputs ==
  [hasKey : {FALSE}, fetch : {"throws"}, textThrows : {FALSE},
   body : {[kind |-> "null", tracks |-> Null]}]
    \cup [hasKey : {TRUE}, fetch : {"throws", "notOk"}, textThrows : BOOLEAN,
          body : {[kind |-> "null", tracks |-> Null]}]
    \cup [hasKey : {TRUE}, fetch : {"ok"}, textThrows : {FALSE},
          body : LastFmBodies]

NowPlayingCall(in) ==
  /\ call = <<>>
  /\ call' = <<"now-playing", in>>
  /\ answer' = NowPlayingAnswer(in)

\* ---- contributions ----

NoContributions == [status |-> 200, contributions |-> <<>>, totalContributions |-> 0]

\* the three fields the handler copies from a day
Day(day) == [date |-> day.date, count |-> day.count, level |-> day.level]

\* the total of the year before the current one
TotalFor_YearBefore(total, year) ==
  IF (year - 1) \in DOMAIN total /\ total[year - 1] # 0 THEN total[year - 1] ELSE 0

\* data.total[String(currentYear)] || 0
TotalFor(total, year) ==
  IF year \in DOMAIN total /\ total[year] # 0 THEN total[year] ELSE 0

\* the contributions handler
ContributionsAnswer(in) ==
  IF in.fetch # "ok" THEN NoContributions
  ELSE IF in.body.kind = "notJson" THEN NoContributions
  ELSE IF in.body.contributions = Null \/ in.body.total = Null
  THEN NoContributions
  ELSE [status |-> 200,
        contributions |->
          [i \in 1..Len(in.body.contributions[1]) |->
             Day(in.body.contributions[1][i])],
        totalContributions |-> TotalFor(in.body.total[1], in.year)]

Years == {2025, 2026}

Days ==
  [date : {"01-01", "01-02"}, count : {0, 3}, level : {0, 2}, extra : {"x"}]

\* the totals per year of the upstream body: any years, counts 0 or more
Totals ==
  UNION { [ys -> {0, 7}] : ys \in SUBSET Years }

ContributionBodies ==
  [kind : {"notJson"}, contributions : {Null}, total : {Null}]
    \cup [kind : {"object"},
          contributions : {Null} \cup { <<q>> : q \in SeqsUpTo(Days, MaxDays) },
          total : {Null} \cup { <<t>> : t \in Totals }]

ContributionsInputs ==
  [fetch : {"throws", "notOk"}, year : Years,
   body : {[kind |-> "notJson", contributions |-> Null, total |-> Null]}]
    \cup [fetch : {"ok"}, year : Years, body : ContributionBodies]

ContributionsCall(in) ==
  /\ call = <<>>
  /\ call' = <<"contributions", in>>
  /\ answer' = ContributionsAnswer(in)

\* ---- resume ----

\* the upstream status not looked at
ResumeAnswer_NoOkCheck(in) ==
  IF in.fetch \in {"throwsError", "throwsOther"} \/ in.bufferThrows
  THEN [status |-> 500, contentType |-> "text/plain", body |-> "error text"]
  ELSE [status |-> 200, contentType |-> "application/pdf", body |-> "pdf"]

\* the resume handler
ResumeAnswer(in) ==
  IF in.fetch = "throwsOther"
  THEN [status |-> 500, contentType |-> "text/plain", body |-> "error text"]
  ELSE IF in.fetch \in {"throwsError", "notOk"} \/ in.bufferThrows
  THEN [status |-> 500, contentType |-> "text/plain", body |-> "error text"]
  ELSE [status |-> 200, contentType |-> "application/pdf", body |-> "pdf"]

ResumeInputs ==
  [fetch : {"throwsError", "throwsOther", "notOk"}, bufferThrows : {FALSE}]
    \cup [fetch : {"ok"}, bufferThrows : BOOLEAN]

ResumeCall(in) ==
  /\ call = <<>>
  /\ call' = <<"resume", in>>
  /\ answer' = ResumeAnswer(in)

RouteInit == CycleIdle /\ ConcIdle /\ PageIdle /\ AppIdle /\ HomeIdle /\ RouteIdle

RouteNext ==
  /\ \/ \E in \in NowPlayingInputs : NowPlayingCall(in)
     \/ \E in \in ContributionsInputs : ContributionsCall(in)
     \/ \E in \in ResumeInputs : ResumeCall(in)
  /\ UNCHANGED <<upstream, pc, html, idx, data, result, response>>
  /\ UNCHANGED <<concVars, pageVars, appVars, homeVars>>

SpecRoutes == RouteInit /\ [][RouteNext]_vars

Called(route) == call # <<>> /\ call[1] = route

Input == call[2]

\* the first track of the upstream body of a now-playing call
FirstTrack == Input.body.tracks[1][1]

\* the now-playing call ran into one of its failures
NowPlayingFailed ==
  \/ ~Input.hasKey
  \/ Input.fetch \in {"throws", "notOk"}
  \/ Input.body.kind # "object"
  \/ Input.body.tracks \in {Null, <<<<>>>>}
  \/ FirstTrack.images = Null
  \/ ~FirstTrack.hasArtist

(***************************************************************************)
(* C28.  The now-playing endpoint answers 200 on every path; when the API  *)
(* key is missing, the upstream status is not ok, an error is thrown or    *)
(* the body has no track, isPlaying is false and track is null; when a     *)
(* track is returned, isPlaying is true exactly when the track's           *)
(* nowplaying attribute is the string "true".                              *)
(***************************************************************************)
C28_NowPlayingAlways200 ==
  Called("now-playing") =>
    /\ answer.status = 200
    /\ NowPlayingFailed => ~answer.isPlaying /\ answer.track = Null
    /\ ~NowPlayingFailed =>
         /\ answer.track # Null
         /\ answer.isPlaying <=> (FirstTrack.attr = <<"true">>)

\* a track whose attribute says "false", returned as not playing
C28_Witness ==
  /\ Called("now-playing")
  /\ ~NowPlayingFailed
  /\ FirstTrack.attr = <<"false">>
  /\ answer.track # Null
  /\ ~answer.isPlaying

\* the contributions call got through to the end of the try block
ContributionsSucceeded ==
  /\ Input.fetch = "ok"
  /\ Input.body.kind = "object"
  /\ Input.body.contributions # Null
  /\ Input.body.total # Null

(***************************************************************************)
(* C29.  The contributions endpoint answers 200 on every path; when the    *)
(* upstream call fails, is not ok or its body cannot be processed the      *)
(* body is exactly { contributions: [], totalContributions: 0 }; on        *)
(* success totalContributions is the upstream total of the current year,   *)
(* or 0 when that year has none.                                           *)
(***************************************************************************)
C29_ContributionsAlways200 ==
  Called("contributions") =>
    /\ answer.status = 200
    /\ ~ContributionsSucceeded =>
         answer.contributions = <<>> /\ answer.totalContributions = 0
    /\ ContributionsSucceeded =>
         /\ answer.totalContributions =
              (IF Input.year \in DOMAIN Input.body.total[1]
               THEN Input.body.total[1][Input.year] ELSE 0)
         /\ Len(answer.contributions) = Len(Input.body.contributions[1])

\* the totals of two years, the current year's returned
C29_Witness ==
  /\ Called("contributions")
  /\ ContributionsSucceeded
  /\ Input.year = 2026
  /\ DOMAIN Input.body.total[1] = Years
  /\ Input.body.total[1][2025] = 0
  /\ Input.body.total[1][2026] = 7
  /\ answer.totalContributions = 7
  /\ Len(answer.contributions) = 2

(***************************************************************************)
(* C30.  The resume endpoint answers 200 with content type                 *)
(* application/pdf only when the upstream status was ok; when the status   *)
(* is not ok or the fetch throws it answers 500 with a text body; the      *)
(* handler always answers.                                                 *)
(***************************************************************************)
C30_ResumePdfOnlyWhenOk ==
  Called("resume") =>
    /\ answer.status \in {200, 500}
    /\ answer.status = 200 =>
         Input.fetch = "ok" /\ answer.contentType = "application/pdf"
    /\ Input.fetch # "ok" =>
         answer.status = 500 /\ answer.contentType = "text/plain"
    /\ Input.fetch = "ok" /\ ~Input.bufferThrows => answer.status = 200

\* the upstream answered with a status that is not ok
C30_Witness ==
  /\ Called("resume")
  /\ Input.fetch = "notOk"
  /\ answer.status = 500

====
